---------------------------- MODULE Spec2Model ----------------------------
(***************************************************************************)
(* A model of the SSCP summer-school repository: the teaching notebooks    *)
(* (E2 mass action, E6 Hodgkin-Huxley, the RxD wave exercise, the LFPy     *)
(* exercise) and the modelparameters Logger.  The repository is a set of   *)
(* independent programs; the variable program says which one a behaviour   *)
(* executes, and only that program's actions are enabled in it.            *)
(*                                                                         *)
(* Real numbers are exact rationals <<n, d>> (d > 0, lowest terms), so the *)
(* arithmetic of the right-hand sides is the code's arithmetic over the    *)
(* reals, without rounding.                                                *)
(***************************************************************************)
EXTENDS Integers, Sequences, FiniteSets, TLC

(***************************************************************************)
(* Exact rational arithmetic.                                              *)
(***************************************************************************)
Abs(n) == IF n < 0 THEN -n ELSE n

RECURSIVE GCD(_, _)
GCD(a, b) == IF b = 0 THEN a ELSE GCD(b, a % b)

Norm(n, d) ==
    LET s == IF d < 0 THEN -1 ELSE 1
        g == GCD(Abs(n), Abs(d))
    IN  <<(s * n) \div g, (s * d) \div g>>

R(n) == <<n, 1>>
Q(n, d) == Norm(n, d)
RNeg(a) == <<-a[1], a[2]>>
RAdd(a, b) ==
    LET g == GCD(a[2], b[2])
        l == (a[2] \div g) * b[2]
    IN  Norm(a[1] * (l \div a[2]) + b[1] * (l \div b[2]), l)
RSub(a, b) == RAdd(a, RNeg(b))
RMul(a, b) ==
    LET x == Norm(a[1], b[2])
        y == Norm(b[1], a[2])
    IN  <<x[1] * y[1], x[2] * y[2]>>
RDiv(a, b) == RMul(a, Norm(b[2], b[1]))
RLt(a, b) == a[1] * b[2] < b[1] * a[2]
RLe(a, b) == a[1] * b[2] <= b[1] * a[2]
RSize(a) == IF Abs(a[1]) > a[2] THEN Abs(a[1]) ELSE a[2]

RECURSIVE RPow(_, _)
RPow(a, n) == IF n = 0 THEN R(1) ELSE RMul(a, RPow(a, n - 1))

Last(s) == s[Len(s)]

(***************************************************************************)
(* Bounds of the model.                                                    *)
(***************************************************************************)
\* the solver takes at most this many internal steps in one odeint call
MaxOdeSteps == 2
\* a solver step is taken only from states whose concentrations (numerator
\* and denominator) are at most this large, so that products stay in range
MaxConc == 60
\* the same for the gating variables and the membrane potential of E6
MaxGate == 3
MaxVolt == 100
\* at most this many calls are made on the Logger
MaxCalls == 4
\* at most this many slider changes wait to be handled
MaxPending == 1

VARIABLES
    program,     \* which program of the repository this behaviour executes
    pc,          \* the position in that program
    calls,       \* the library calls made so far in this execution, in order
    \* ---- notebook E2 (law of mass action) ----
    time,        \* the vector of time points, in units of dt
    k,           \* the rate constant
    y_0,         \* the initial condition
    solutions,   \* the rows the solver has produced so far
    evals,       \* the evaluations of rhs the solver made: [y, t, dydt, h]
    cols,        \* the columns np.hsplit / y[:,i] gives, by name
    \* ---- notebook E6 (Hodgkin-Huxley) ----
    p,           \* the parameter dictionary
    tcur,        \* the solver's current time
    \* ---- modelparameters.logger.Logger ----
    logger,      \* the Logger object and the logging objects it owns
    last,        \* the last call made on it and what it did
    before,      \* the level in force before each push not yet popped
    nested,      \* no pop_log_level without a push before it so far
    nBegin,      \* the number of begin_log calls so far
    nEnd,        \* the number of end_log calls so far
    indentSet,   \* set_log_indent or add_log_indent has been called
    nCalls,      \* the number of calls made on the Logger so far
    \* ---- the interact widgets (RxD exercise, LFPy exercise) ----
    values,      \* the kernel's current value of each slider
    pending,     \* the slider changes sent by the front end, not yet handled
    displayed,   \* the figure the output area shows
    figure,      \* the lines plotted so far by the running callback
    neuron,      \* NEURON's state: h.t, r_param, the concentrations of u
    iter,        \* the loop variable i of runneuron
    cell,        \* the LFPy cell and synapse of the running callback
    \* ---- the peak-finding cells of E5.1 ----
    I,           \* the data array, sweep_length x sweep_num
    sweep,       \* the loop variable i of the peak-finding loop
    peak,        \* the arrays the loop fills
    peak_index,
    t_peak

odevars == <<time, k, y_0, solutions, evals, cols, p, tcur>>
logvars == <<logger, last, before, nested, nBegin, nEnd, indentSet, nCalls>>
wvars == <<values, pending, displayed, figure, neuron, iter, cell>>
e5vars == <<I, sweep, peak, peak_index, t_peak>>
vars == <<program, pc, calls, odevars, logvars, wvars, e5vars>>
notOde == <<logvars, wvars, e5vars>>
notLog == <<calls, odevars, wvars, e5vars>>
notWidget == <<odevars, logvars, e5vars>>
notE5 == <<odevars, logvars, wvars>>

\* the values of a program's variables in the behaviours of the others
NoCols == [H2 |-> <<>>, O2 |-> <<>>, H2O |-> <<>>]
NoParams == [none |-> TRUE]
OdeIdle ==
    /\ time = <<>> /\ k = <<0, 1>> /\ y_0 = <<>> /\ solutions = <<>>
    /\ evals = <<>> /\ cols = NoCols /\ p = NoParams /\ tcur = <<0, 1>>
LogIdle ==
    /\ logger = [none |-> TRUE] /\ last = [op |-> "none"] /\ before = <<>>
    /\ nested = TRUE /\ nBegin = 0 /\ nEnd = 0 /\ indentSet = FALSE
    /\ nCalls = 0
NoValue == [none |-> TRUE]
WidgetIdle ==
    /\ values = NoValue /\ pending = <<>> /\ displayed = <<>> /\ figure = <<>>
    /\ neuron = NoValue /\ iter = 0 /\ cell = NoValue
E5Idle ==
    /\ I = NoValue /\ sweep = 0
    /\ peak = <<>> /\ peak_index = <<>> /\ t_peak = <<>>

(***************************************************************************)
(* Notebook E2: 2 H2 + O2 -> 2 H2O by the law of mass action.              *)
(***************************************************************************)
\* def rhs(y, t, k): the three derivatives, in the order of y
E2_rhs_noFactor2(y, t, kk) ==
    LET H2 == y[1]
        O2 == y[2]
        dH2_dt  == RMul(RMul(RMul(RNeg(kk), H2), H2), O2)
        dO2_dt  == RMul(RMul(RMul(RNeg(kk), H2), H2), O2)
        dH2O_dt == RMul(RMul(RMul(kk, H2), H2), O2)
    IN  <<dH2_dt, dO2_dt, dH2O_dt>>

E2_rhs(y, t, kk) ==
    LET H2  == y[1]
        O2  == y[2]
        H2O == y[3]
        dH2_dt  == RMul(RMul(RMul(RMul(R(-2), kk), H2), H2), O2)
        dO2_dt  == RMul(RMul(RMul(RNeg(kk), H2), H2), O2)
        dH2O_dt == RMul(RMul(RMul(kk, H2), H2), O2)
    IN  <<dH2_dt, dO2_dt, dH2O_dt>>

\* np.arange(start, stop, step) on a grid of step-sized units: the points
\* start + i*step for 0 <= i < ceil((stop - start)/step); stop is excluded
Arange(start, stop, step) ==
    LET n == (stop - start + step - 1) \div step
    IN  [i \in 1..(IF n > 0 THEN n ELSE 0) |-> start + (i - 1) * step]

\* dt = 0.1 and T = 10, in tenths
E2_dt == 1
E2_T == 100

\* The values the notebook invites the reader to try for the initial
\* condition and the rate; (1.0, 1.0, 0.0) and k = 10 are the ones written.
E2_Conc0 == {R(0), R(1), R(2), Q(1, 2)}
E2_Rates == {R(0), R(1), R(10), Q(1, 2)}
\* the step sizes the adaptive solver may choose
StepSizes == {Q(1, 2), Q(1, 4), Q(1, 20)}

E2_Init ==
    /\ program = "E2"
    /\ pc = "setup"
    /\ calls = <<>>
    /\ time = <<>>
    /\ k \in E2_Rates
    /\ y_0 \in {<<a, b, c>> : a \in E2_Conc0, b \in E2_Conc0, c \in {R(0), R(1)}}
    /\ solutions = <<>>
    /\ evals = <<>>
    /\ cols = NoCols
    /\ p = NoParams
    /\ tcur = R(0)
    /\ LogIdle
    /\ WidgetIdle
    /\ E5Idle

\* the cell "time = np.arange(0, T, dt); y_0 = ...; k = ...; params = (k,)"
E2_Setup ==
    /\ program = "E2" /\ pc = "setup"
    /\ time' = Arange(0, E2_T, E2_dt)
    /\ pc' = "odeint"
    /\ UNCHANGED <<program, calls, k, y_0, solutions, evals, cols, p, tcur>>
    /\ UNCHANGED notOde

\* solutions = odeint(rhs, y_0, time, params): the call starts at y_0
E2_OdeintCall ==
    /\ program = "E2" /\ pc = "odeint"
    /\ calls' = Append(calls, "odeint")
    /\ solutions' = <<y_0>>
    /\ pc' = "solving"
    /\ UNCHANGED <<program, time, k, y_0, evals, cols, p, tcur>>
    /\ UNCHANGED notOde

E2_Small(y) == \A i \in 1..Len(y) : RSize(y[i]) <= MaxConc

\* one internal step of the solver: it evaluates rhs at the current state
\* and advances along it by a step h of its choice
E2_OdeintStep ==
    /\ program = "E2" /\ pc = "solving"
    /\ Len(solutions) <= MaxOdeSteps
    /\ E2_Small(Last(solutions))
    /\ \E h \in StepSizes :
         LET y == Last(solutions)
             d == E2_rhs(y, tcur, k)
             ynew == [i \in 1..Len(y) |-> RAdd(y[i], RMul(h, d[i]))]
         IN  /\ evals' = Append(evals, [y |-> y, t |-> tcur, dydt |-> d, h |-> h])
             /\ solutions' = Append(solutions, ynew)
             /\ tcur' = RAdd(tcur, h)
    /\ UNCHANGED <<program, pc, calls, time, k, y_0, cols, p>>
    /\ UNCHANGED notOde

\* H2, O2, H2O = np.hsplit(solutions, 3)
Column(rows, j) == [i \in 1..Len(rows) |-> rows[i][j]]
E2_hsplit(rows) ==
    [H2 |-> Column(rows, 1), O2 |-> Column(rows, 2), H2O |-> Column(rows, 3)]

E2_OdeintReturn ==
    /\ program = "E2" /\ pc = "solving"
    /\ cols' = E2_hsplit(solutions)
    /\ pc' = "plot"
    /\ UNCHANGED <<program, calls, time, k, y_0, solutions, evals, p, tcur>>
    /\ UNCHANGED notOde

\* the plotting cell: three plt.plot calls, the labels, plt.show()
E2_Plot ==
    /\ program = "E2" /\ pc = "plot"
    /\ calls' = calls \o <<"plot", "plot", "plot">>
    /\ pc' = "show"
    /\ UNCHANGED <<program, time, k, y_0, solutions, evals, cols, p, tcur>>
    /\ UNCHANGED notOde

E2_Show ==
    /\ program = "E2" /\ pc = "show"
    /\ calls' = Append(calls, "show")
    /\ pc' = "done"
    /\ UNCHANGED <<program, time, k, y_0, solutions, evals, cols, p, tcur>>
    /\ UNCHANGED notOde

E2_Next ==
    \/ E2_Setup
    \/ E2_OdeintCall
    \/ E2_OdeintStep
    \/ E2_OdeintReturn
    \/ E2_Plot
    \/ E2_Show

(***************************************************************************)
(* Notebook E6: the Hodgkin-Huxley model.                                  *)
(***************************************************************************)
\* The six transition rates are np.exp expressions of V; exp has no exact
\* value here, so an evaluation of rhs takes the six values it computes as
\* a table rt.  Nothing below depends on which values they are.
E6_RateTables ==
    { [alpha_m |-> R(1), beta_m |-> R(0), alpha_h |-> R(0), beta_h |-> R(1),
       alpha_n |-> R(1), beta_n |-> R(0)],
      [alpha_m |-> Q(1, 2), beta_m |-> R(2), alpha_h |-> R(1), beta_h |-> Q(1, 2),
       alpha_n |-> R(0), beta_n |-> R(1)] }

\* the stimulus: I_app = -I_amp if 2 < t < 4 else 0.0
E6_I_app(t, pp) ==
    IF RLt(R(2), t) /\ RLt(t, R(4)) THEN RNeg(pp.I_amp) ELSE R(0)
E6_I_Na(y, pp) == RMul(RMul(RMul(pp.gNa, RPow(y[1], 3)), y[2]), RSub(y[4], pp.E_Na))
E6_I_K(y, pp) == RMul(RMul(pp.gK, RPow(y[3], 4)), RSub(y[4], pp.E_K))
E6_I_L(y, pp) == RMul(pp.gL, RSub(y[4], pp.E_L))

\* rhs with the first two derivatives returned in the wrong order
E6_rhs_swapped(y, t, pp, rt) ==
    LET m == y[1]
        h == y[2]
        n == y[3]
        dm_dt == RSub(RMul(rt.alpha_m, RSub(R(1), m)), RMul(rt.beta_m, m))
        dh_dt == RSub(RMul(rt.alpha_h, RSub(R(1), h)), RMul(rt.beta_h, h))
        dn_dt == RSub(RMul(rt.alpha_n, RSub(R(1), n)), RMul(rt.beta_n, n))
        dV_dt == RDiv(RNeg(RAdd(RAdd(E6_I_Na(y, pp), E6_I_app(t, pp)), E6_I_K(y, pp))),
                      pp.Cm)
    IN  <<dh_dt, dm_dt, dn_dt, dV_dt>>

\* def rhs(y, t, p): [dm_dt, dh_dt, dn_dt, dV_dt]
E6_rhs(y, t, pp, rt) ==
    LET m == y[1]
        h == y[2]
        n == y[3]
        V == y[4]
        Cm == pp.Cm
        I_app == E6_I_app(t, pp)
        I_Na == E6_I_Na(y, pp)
        I_K == E6_I_K(y, pp)
        I_L == E6_I_L(y, pp)
        dm_dt == RSub(RMul(rt.alpha_m, RSub(R(1), m)), RMul(rt.beta_m, m))
        dh_dt == RSub(RMul(rt.alpha_h, RSub(R(1), h)), RMul(rt.beta_h, h))
        dn_dt == RSub(RMul(rt.alpha_n, RSub(R(1), n)), RMul(rt.beta_n, n))
        dV_dt == RDiv(RNeg(RAdd(RAdd(I_Na, I_app), I_K)), Cm)
    IN  <<dm_dt, dh_dt, dn_dt, dV_dt>>

\* the parameters of the notebook, and a second set to vary them
E6_p ==
    [Cm |-> R(1), E_Na |-> R(50), E_K |-> R(-80), E_L |-> R(-75),
     gNa |-> R(120), gK |-> R(40), gL |-> Q(3, 10), I_amp |-> R(100)]
E6_Params == {E6_p, [E6_p EXCEPT !.Cm = R(2), !.gL = R(1), !.E_L = R(-80)]}

\* y0 = [m0, h0, n0, V0]; [0, 1, 0, -80] is the one written
E6_Y0 ==
    {<<m0, h0, n0, V0>> : m0 \in {R(0), R(1)}, h0 \in {R(0), R(1)},
                          n0 \in {R(0), R(1)}, V0 \in {R(-80), R(-75), R(0)}}
E6_StepSizes == {Q(1, 2), R(3)}

E6_Init ==
    /\ program = "E6"
    /\ pc = "odeint"
    /\ calls = <<>>
    /\ time = <<>>
    /\ k = R(0)
    /\ y_0 \in E6_Y0
    /\ solutions = <<>>
    /\ evals = <<>>
    /\ cols = NoCols
    /\ p \in E6_Params
    /\ tcur = R(0)
    /\ LogIdle
    /\ WidgetIdle
    /\ E5Idle

\* y = odeint(rhs, y0, time, (p,))
E6_OdeintCall ==
    /\ program = "E6" /\ pc = "odeint"
    /\ calls' = Append(calls, "odeint")
    /\ solutions' = <<y_0>>
    /\ pc' = "solving"
    /\ UNCHANGED <<program, time, k, y_0, evals, cols, p, tcur>>
    /\ UNCHANGED notOde

E6_Small(y) ==
    /\ \A i \in 1..3 : RSize(y[i]) <= MaxGate
    /\ RSize(y[4]) <= MaxVolt

E6_OdeintStep ==
    /\ program = "E6" /\ pc = "solving"
    /\ Len(solutions) <= MaxOdeSteps
    /\ E6_Small(Last(solutions))
    /\ \E h \in E6_StepSizes, rt \in E6_RateTables :
         LET y == Last(solutions)
             d == E6_rhs(y, tcur, p, rt)
             ynew == [i \in 1..Len(y) |-> RAdd(y[i], RMul(h, d[i]))]
         IN  /\ evals' = Append(evals, [y |-> y, t |-> tcur, dydt |-> d, h |-> h,
                                        rt |-> rt])
             /\ solutions' = Append(solutions, ynew)
             /\ tcur' = RAdd(tcur, h)
    /\ UNCHANGED <<program, pc, calls, time, k, y_0, cols, p>>
    /\ UNCHANGED notOde

\* m = y[:,0]; h = y[:,1]; n = y[:,2]; V = y[:,3]
E6_columns(rows) ==
    [m |-> Column(rows, 1), h |-> Column(rows, 2), n |-> Column(rows, 3),
     V |-> Column(rows, 4)]

E6_OdeintReturn ==
    /\ program = "E6" /\ pc = "solving"
    /\ cols' = E6_columns(solutions)
    /\ pc' = "plot"
    /\ UNCHANGED <<program, calls, time, k, y_0, solutions, evals, p, tcur>>
    /\ UNCHANGED notOde

\* plt.subplot(1,2,1); plt.plot(time, V); plt.subplot(1,2,2); plt.plot(time, m, ...)
E6_Plot ==
    /\ program = "E6" /\ pc = "plot"
    /\ calls' = calls \o <<"plot", "plot">>
    /\ pc' = "done"
    /\ UNCHANGED <<program, time, k, y_0, solutions, evals, cols, p, tcur>>
    /\ UNCHANGED notOde

E6_Next ==
    \/ E6_OdeintCall
    \/ E6_OdeintStep
    \/ E6_OdeintReturn
    \/ E6_Plot

(***************************************************************************)
(* modelparameters/logger.py: class Logger.                                *)
(*                                                                         *)
(* The Logger object is the record self: its attributes _level_stack,      *)
(* _indent_level, _raise_error and _DefaultException, and the levels of    *)
(* the logging.Logger (_log) and of the console handler (_handler) it      *)
(* owns.  A method is an operator from self and its arguments to the new   *)
(* self, the exception it raises ("none": it returns) and whether a record *)
(* reached the console.  Messages are well-formed (they format).           *)
(***************************************************************************)
LEVEL == [DEBUG |-> 10, INFO |-> 20, WARNING |-> 30, ERROR |-> 40, CRITICAL |-> 50]
Levels == {LEVEL.INFO, LEVEL.ERROR, LEVEL.CRITICAL}

Ret(self) == [self |-> self, raised |-> "none", wrote |-> FALSE]
Raise(self, exc) == [self |-> self, raised |-> exc, wrote |-> FALSE]

\* The handler objects: the logging.StreamHandler(sys.stdout) that __init__
\* makes, and the handlers a caller makes and passes to set_log_handler; a
\* new logging.Handler has level NOTSET
StreamHandler == <<"StreamHandler", "sys.stdout">>
Handlers == {StreamHandler, <<"Handler", "h1">>, <<"Handler", "h2">>}
NOTSET == 0

\* logging.Logger.addHandler, removeHandler: the list holds a handler once
addHandler(handlers, h) ==
    IF \E i \in 1..Len(handlers) : handlers[i] = h THEN handlers
    ELSE Append(handlers, h)
removeHandler(handlers, h) == SelectSeq(handlers, LAMBDA x : x # h)

\* types.MethodType(...) of Python 3 takes a function and an instance; a
\* call with a third argument, the class, raises TypeError
MethodType(nargs) == IF nargs = 2 THEN "method" ELSE "TypeError"

\* Logger.__init__
Logger_init ==
    [handler_level |-> LEVEL.WARNING,
     log_level |-> LEVEL.DEBUG,
     _indent_level |-> 0,
     _raise_error |-> TRUE,
     _level_stack |-> <<LEVEL.DEBUG>>,
     _DefaultException |-> "ModelParametersException",
     _handler |-> StreamHandler,
     handlers |-> <<StreamHandler>>,
     level_of |-> [h \in Handlers |-> IF h = StreamHandler THEN LEVEL.WARNING
                                       ELSE NOTSET],
     _logfiles |-> {},
     _prefix |-> ""]

\* Logger.set_default_exception
set_default_exception(self, exception) ==
    IF exception \notin {"ModelParametersException", "TypeError", "ValueError",
                         "KeyError", "IndexError"}
    THEN Raise(self, "TypeError")
    ELSE Ret([self EXCEPT !._DefaultException = exception])

\* Logger.set_raise_error
set_raise_error(self, value) == Ret([self EXCEPT !._raise_error = value])

\* Logger.log: the record is written when the logger and the handler let
\* its level through
log(self, level, message) ==
    [self |-> self, raised |-> "none",
     wrote |-> level >= self.log_level /\ level >= self.handler_level]

\* Logger.info
info(self, message) == log(self, LEVEL.INFO, message)

\* error that raises whatever raise_error says
error_alwaysRaise(self, message, kwargs) ==
    LET w == log(self, LEVEL.ERROR, message)
        exception == IF kwargs.exception = "unset" THEN self._DefaultException
                     ELSE kwargs.exception
    IN  [self |-> self, raised |-> exception, wrote |-> w.wrote]

\* Logger.error
error(self, message, kwargs) ==
    LET w == log(self, LEVEL.ERROR, message)
        raise_error == IF kwargs.raise_error = "unset" THEN self._raise_error
                       ELSE kwargs.raise_error = "True"
        exception == IF kwargs.exception = "unset" THEN self._DefaultException
                     ELSE kwargs.exception
    IN  [self |-> self,
         raised |-> IF raise_error THEN exception ELSE "none",
         wrote |-> w.wrote]

\* Logger.type_error
type_error(self, message, kwargs) ==
    error(self, message, [kwargs EXCEPT !.exception = "TypeError"])

\* Logger.value_error
value_error(self, message, kwargs) ==
    error(self, message, [kwargs EXCEPT !.exception = "ValueError"])

\* Logger.set_log_indent
set_log_indent(self, level) == Ret([self EXCEPT !._indent_level = level])

\* Logger.add_log_indent(increment=1)
add_log_indent(self, increment) ==
    Ret([self EXCEPT !._indent_level = self._indent_level + increment])

\* Logger.begin_log
begin_log(self, message) ==
    LET w == info(self, message)
        r == add_log_indent(w.self, 1)
    IN  [r EXCEPT !.wrote = w.wrote]

\* end_log that does not decrease the indentation
end_log_noDecrease(self) ==
    LET w == info(self, "")
    IN  [self |-> w.self, raised |-> "none", wrote |-> w.wrote]

\* Logger.end_log
end_log(self) ==
    LET w == info(self, "")
        r == add_log_indent(w.self, -1)
    IN  [r EXCEPT !.wrote = w.wrote]

\* Logger.set_log_level: self._level_stack[-1] = level raises IndexError on
\* an empty stack, before any level is set
set_log_level(self, level) ==
    IF Len(self._level_stack) = 0
    THEN Raise(self, "IndexError")
    ELSE Ret([self EXCEPT !._level_stack[Len(self._level_stack)] = level,
                          !.log_level = level,
                          !.handler_level = level,
                          !.level_of[self._handler] = level,
                          !._logfiles = {[e EXCEPT !.level = level] :
                                           e \in self._logfiles}])

\* Logger.get_log_level (of a non-empty stack)
get_log_level(self) == Last(self._level_stack)

\* Logger.push_log_level
push_log_level(self, level) ==
    set_log_level([self EXCEPT !._level_stack = Append(self._level_stack, level)],
                  level)

\* pop_log_level that reads the level before it pops
pop_log_level_stale(self) ==
    IF Len(self._level_stack) = 0
    THEN Raise(self, "IndexError")
    ELSE LET level == Last(self._level_stack)
             popped == [self EXCEPT !._level_stack = SubSeq(self._level_stack, 1,
                                                     Len(self._level_stack) - 1)]
         IN  set_log_level(popped, level)

\* Logger.pop_log_level: list.pop() and [-1] raise IndexError on an empty list
pop_log_level(self) ==
    IF Len(self._level_stack) = 0
    THEN Raise(self, "IndexError")
    ELSE LET popped == [self EXCEPT !._level_stack = SubSeq(self._level_stack, 1,
                                                     Len(self._level_stack) - 1)]
         IN  IF Len(popped._level_stack) = 0
             THEN Raise(popped, "IndexError")
             ELSE set_log_level(popped, Last(popped._level_stack))

\* Logger.suppress_logging
suppress_logging(self) == set_log_level(self, LEVEL.CRITICAL + 1)

\* Logger.warning
warning(self, message) == log(self, LEVEL.WARNING, message)

\* the filenames registered in self._logfiles
Registered(self) == {e.filename : e \in self._logfiles}

\* logging.FileHandler(filename, mode)
FileHandler(filename, mode) == <<"FileHandler", filename>>

\* Logger.add_logfile(filename=None, mode="a"); the logger's name is "name"
add_logfile(self, filename, mode) ==
    LET fname == IF filename = "None" THEN "name.log" ELSE filename
    IN  IF fname \in Registered(self)
        THEN warning(self, "Trying to add logfile %s multiple times.")
        ELSE LET h == FileHandler(fname, mode)
             IN  IF MethodType(3) = "TypeError"
                 THEN Raise(self, "TypeError")
                 ELSE Ret([self EXCEPT
                        !.handlers = addHandler(self.handlers, h),
                        !._logfiles = self._logfiles \cup
                            {[filename |-> fname, handler |-> h,
                              level |-> self.log_level]}])

\* Logger.remove_logfile
remove_logfile(self, filename) ==
    IF filename \in Registered(self)
    THEN LET e == CHOOSE x \in self._logfiles : x.filename = filename
         IN  Ret([self EXCEPT !._logfiles = self._logfiles \ {e},
                              !.handlers = removeHandler(self.handlers, e.handler)])
    ELSE Ret(self)

\* Logger.get_logfile_handler: self._logfiles[filename]
get_logfile_handler(self, filename) ==
    IF filename \in Registered(self)
    THEN (CHOOSE x \in self._logfiles : x.filename = filename).handler
    ELSE <<"KeyError", filename>>

\* Logger.get_log_handler
get_log_handler(self) == self._handler

\* set_log_handler that adds the handler and leaves the old one attached
set_log_handler_adds(self, handler) ==
    LET replaced == [self EXCEPT
                       !.handlers = addHandler(self.handlers, handler),
                       !._handler = handler,
                       !.handler_level = self.level_of[handler]]
    IN  IF MethodType(3) = "TypeError"
        THEN Raise(replaced, "TypeError")
        ELSE Ret(replaced)

\* Logger.set_log_handler: the old handler is removed, the new one added and
\* stored, and then its emit is set with
\* types.MethodType(emit, self._handler, self._handler.__class__)
set_log_handler(self, handler) ==
    LET replaced == [self EXCEPT
                       !.handlers = addHandler(removeHandler(self.handlers,
                                                             self._handler),
                                               handler),
                       !._handler = handler,
                       !.handler_level = self.level_of[handler]]
    IN  IF MethodType(3) = "TypeError"
        THEN Raise(replaced, "TypeError")
        ELSE Ret(replaced)

NoKwargs == [raise_error |-> "unset", exception |-> "unset"]
Call(op, r, kwargs, matched) ==
    [op |-> op, raised |-> r.raised, wrote |-> r.wrote, kwargs |-> kwargs,
     matched |-> matched]
Done(op, r) == Call(op, r, NoKwargs, 0)

Log_Init ==
    /\ program = "Logger"
    /\ pc = "ready"
    /\ calls = <<>>
    /\ OdeIdle
    /\ WidgetIdle
    /\ logger = Logger_init
    /\ last = Done("__init__", Ret(Logger_init))
    /\ before = <<>>
    /\ nested = TRUE
    /\ nBegin = 0
    /\ nEnd = 0
    /\ indentSet = FALSE
    /\ nCalls = 0
    /\ E5Idle

\* one more call on the Logger; the other programs' variables stay
LogCall ==
    /\ program = "Logger"
    /\ nCalls < MaxCalls
    /\ nCalls' = nCalls + 1
    /\ UNCHANGED <<program, pc, notLog>>

Log_set_log_level ==
    /\ LogCall
    /\ \E level \in Levels :
         LET r == set_log_level(logger, level)
         IN  logger' = r.self /\ last' = Done("set_log_level", r)
    /\ UNCHANGED <<before, nested, nBegin, nEnd, indentSet>>

Log_suppress_logging ==
    /\ LogCall
    /\ LET r == suppress_logging(logger)
       IN  logger' = r.self /\ last' = Done("suppress_logging", r)
    /\ UNCHANGED <<before, nested, nBegin, nEnd, indentSet>>

Log_push_log_level ==
    /\ LogCall
    /\ \E level \in Levels :
         LET r == push_log_level(logger, level)
         IN  /\ logger' = r.self
             /\ last' = Done("push_log_level", r)
             /\ before' = IF Len(logger._level_stack) > 0
                          THEN Append(before, get_log_level(logger))
                          ELSE before
             /\ nested' = (nested /\ Len(logger._level_stack) > 0)
    /\ UNCHANGED <<nBegin, nEnd, indentSet>>

Log_pop_log_level ==
    /\ LogCall
    /\ LET r == pop_log_level(logger)
       IN  /\ logger' = r.self
           /\ last' = Call("pop_log_level", r, NoKwargs,
                         IF Len(before) > 0 THEN Last(before) ELSE 0)
           /\ before' = IF Len(before) > 0 THEN SubSeq(before, 1, Len(before) - 1)
                        ELSE before
           /\ nested' = (nested /\ Len(before) > 0)
    /\ UNCHANGED <<nBegin, nEnd, indentSet>>

Log_begin_log ==
    /\ LogCall
    /\ LET r == begin_log(logger, "msg")
       IN  logger' = r.self /\ last' = Done("begin_log", r)
    /\ nBegin' = nBegin + 1
    /\ UNCHANGED <<before, nested, nEnd, indentSet>>

Log_end_log ==
    /\ LogCall
    /\ LET r == end_log(logger)
       IN  logger' = r.self /\ last' = Done("end_log", r)
    /\ nEnd' = nEnd + 1
    /\ UNCHANGED <<before, nested, nBegin, indentSet>>

Log_set_log_indent ==
    /\ LogCall
    /\ \E level \in {2} :
         LET r == set_log_indent(logger, level)
         IN  logger' = r.self /\ last' = Done("set_log_indent", r)
    /\ indentSet' = TRUE
    /\ UNCHANGED <<before, nested, nBegin, nEnd>>

Log_add_log_indent ==
    /\ LogCall
    /\ \E increment \in {1, -1} :
         LET r == add_log_indent(logger, increment)
         IN  logger' = r.self /\ last' = Done("add_log_indent", r)
    /\ indentSet' = TRUE
    /\ UNCHANGED <<before, nested, nBegin, nEnd>>

Log_set_raise_error ==
    /\ LogCall
    /\ \E value \in BOOLEAN :
         LET r == set_raise_error(logger, value)
         IN  logger' = r.self /\ last' = Done("set_raise_error", r)
    /\ UNCHANGED <<before, nested, nBegin, nEnd, indentSet>>

Log_set_default_exception ==
    /\ LogCall
    /\ \E exception \in {"ModelParametersException", "KeyError", "int"} :
         LET r == set_default_exception(logger, exception)
         IN  logger' = r.self /\ last' = Done("set_default_exception", r)
    /\ UNCHANGED <<before, nested, nBegin, nEnd, indentSet>>

\* the keyword arguments a caller may give error, type_error, value_error
ErrorKwargs ==
    [raise_error : {"unset", "True", "False"}, exception : {"unset", "IndexError"}]

Log_error ==
    /\ LogCall
    /\ \E kwargs \in ErrorKwargs :
         LET r == error(logger, "msg", kwargs)
         IN  /\ logger' = r.self
             /\ last' = Call("error", r, kwargs, 0)
    /\ UNCHANGED <<before, nested, nBegin, nEnd, indentSet>>

Log_type_error ==
    /\ LogCall
    /\ \E kwargs \in ErrorKwargs :
         LET r == type_error(logger, "msg", kwargs)
         IN  /\ logger' = r.self
             /\ last' = Call("type_error", r, kwargs, 0)
    /\ UNCHANGED <<before, nested, nBegin, nEnd, indentSet>>

Log_value_error ==
    /\ LogCall
    /\ \E kwargs \in ErrorKwargs :
         LET r == value_error(logger, "msg", kwargs)
         IN  /\ logger' = r.self
             /\ last' = Call("value_error", r, kwargs, 0)
    /\ UNCHANGED <<before, nested, nBegin, nEnd, indentSet>>

Log_set_log_handler ==
    /\ LogCall
    /\ \E handler \in Handlers :
         LET r == set_log_handler(logger, handler)
         IN  /\ logger' = r.self
             /\ last' = Call("set_log_handler", r,
                             [handler |-> handler, previous |-> logger._handler], 0)
    /\ UNCHANGED <<before, nested, nBegin, nEnd, indentSet>>

Log_add_logfile ==
    /\ LogCall
    /\ \E filename \in {"None", "a.log"} :
         LET r == add_logfile(logger, filename, "a")
         IN  /\ logger' = r.self
             /\ last' = Call("add_logfile", r,
                             [filename |-> IF filename = "None" THEN "name.log"
                                           ELSE filename], 0)
    /\ UNCHANGED <<before, nested, nBegin, nEnd, indentSet>>

Log_remove_logfile ==
    /\ LogCall
    /\ \E filename \in {"a.log"} :
         LET r == remove_logfile(logger, filename)
         IN  /\ logger' = r.self
             /\ last' = Call("remove_logfile", r, [filename |-> filename], 0)
    /\ UNCHANGED <<before, nested, nBegin, nEnd, indentSet>>

Log_Next ==
    \/ Log_set_log_level
    \/ Log_suppress_logging
    \/ Log_push_log_level
    \/ Log_pop_log_level
    \/ Log_begin_log
    \/ Log_end_log
    \/ Log_set_log_indent
    \/ Log_add_log_indent
    \/ Log_set_raise_error
    \/ Log_set_default_exception
    \/ Log_error
    \/ Log_type_error
    \/ Log_value_error
    \/ Log_set_log_handler
    \/ Log_add_logfile
    \/ Log_remove_logfile

(***************************************************************************)
(* ipywidgets.interact: the callback runs once when the widget is made,    *)
(* and again for every slider change the kernel handles.  The front end    *)
(* sends changes at any time; the kernel handles them one at a time, in    *)
(* order, each only after the running callback has returned.               *)
(***************************************************************************)
\* the front end sends the change of one slider
SliderChange(name, v) ==
    /\ Len(pending) < MaxPending
    /\ pending' = Append(pending, <<name, v>>)

\* the kernel sets the slider's value from the oldest change
HandleChange == [values EXCEPT ![pending[1][1]] = pending[1][2]]

(***************************************************************************)
(* The RxD exercise: runneuron and its widget.                             *)
(***************************************************************************)
\* dend.nseg = 101
NSeg == 101
Nodes == 0..(NSeg - 1)

\* the slider positions tried, in hundredths: rate_param is 0.0 .. 2.0 and
\* fraction_initial 0.01 .. 1.0, both in steps of 0.01
Rx_Rates == {0, 100, 200}
Rx_Fractions == {1, 20, 50, 100}
Rx_Defaults == [rate_param |-> 0, fraction_initial |-> 20]

\* the state the initialisation cell leaves: t = 0, r_param = 0, u = 0
Rx_Fresh ==
    [t |-> 0, r_initial |-> 0, r |-> 0, conc |-> [i \in Nodes |-> 0], runs |-> <<>>,
     flux |-> <<>>]

\* the concentrations at which the integrator is seen to evaluate the reaction
Rx_Concs == {R(0), Q(1, 10), Q(3, 10), Q(1, 2), R(1), Q(3, 2)}

\* the reaction with its leading minus sign lost
bistable_reaction_noMinus(u, r_param) ==
    RMul(RMul(RMul(u, r_param), RSub(R(1), u)), RSub(Q(3, 10), u))

\* bistable_reaction = rxd.Rate(u, -u * r_param * (1 - u) * (0.3 - u))
bistable_reaction(u, r_param) ==
    RMul(RMul(RMul(RNeg(u), r_param), RSub(R(1), u)), RSub(Q(3, 10), u))

\* one evaluation of the reaction during a run, at concentration u and with
\* the rate parameter of this run (the slider's hundredths)
Rx_evaluate(n, u) ==
    [n EXCEPT !.flux = <<u, Q(n.r, 100), bistable_reaction(u, Q(n.r, 100))>>]

\* finitialize that leaves the time and the concentrations as they are
finitialize_noReset(n) == [n EXCEPT !.r = n.r_initial]

\* h.finitialize(): t = 0, every state back to its initial value
finitialize(n) ==
    [n EXCEPT !.t = 0, !.r = n.r_initial, !.conc = [i \in Nodes |-> 0],
              !.runs = <<>>]

\* the loop over the nodes with a node's left edge i/nseg taken for node.x
Rx_setInitial_leftEdge(n, fraction) ==
    [n EXCEPT !.conc = [i \in Nodes |->
        IF 100 * i < NSeg * fraction THEN 1 ELSE n.conc[i]]]

\* for node in u.nodes: if node.x < fraction_initial: node.concentration = 1
\* node i of nseg is at x = (i + 1/2)/nseg; fraction is in hundredths
Rx_setInitial(n, fraction) ==
    [n EXCEPT !.conc = [i \in Nodes |->
        IF 100 * (2 * i + 1) < 2 * NSeg * fraction THEN 1 ELSE n.conc[i]]]

\* a continuerun that takes its argument for a duration
continuerun_relative(n, tstop) ==
    [n EXCEPT !.t = n.t + tstop, !.runs = Append(n.runs, <<n.r, n.t, n.t + tstop>>)]

\* h.continuerun(tstop): NEURON integrates from t up to tstop; what the
\* integration makes of the concentrations is NEURON's, and is kept as the
\* record of the run: the rate, the start and the end
continuerun(n, tstop) ==
    IF n.t < tstop
    THEN [n EXCEPT !.t = tstop, !.runs = Append(n.runs, <<n.r, n.t, tstop>>)]
    ELSE n

\* what ax.plot draws: the concentrations at this moment
Rx_line(n) == [conc |-> n.conc, runs |-> n.runs]

Rx_Init ==
    /\ program = "RxD"
    /\ pc = "init"
    /\ calls = <<>>
    /\ OdeIdle
    /\ LogIdle
    /\ values = Rx_Defaults
    /\ pending = <<>>
    /\ displayed = <<>>
    /\ figure = <<>>
    /\ neuron = Rx_Fresh
    /\ iter = 0
    /\ cell = NoValue
    /\ E5Idle

WFrame == UNCHANGED <<program, notWidget>>

Rx_SliderChange ==
    /\ program = "RxD"
    /\ \/ \E v \in Rx_Rates : SliderChange("rate_param", v)
       \/ \E v \in Rx_Fractions : SliderChange("fraction_initial", v)
    /\ UNCHANGED <<pc, calls, values, displayed, figure, neuron, iter, cell>>
    /\ WFrame

\* the kernel handles a change: the value is set and, if it is a new value,
\* the callback starts
Rx_Handle ==
    /\ program = "RxD" /\ pc = "idle"
    /\ Len(pending) > 0
    /\ values' = HandleChange
    /\ pending' = Tail(pending)
    /\ IF values' # values
       THEN pc' = "init" /\ calls' = <<>> /\ figure' = <<>>
       ELSE UNCHANGED <<pc, calls, figure>>
    /\ UNCHANGED <<displayed, neuron, iter, cell>>
    /\ WFrame

\* r_param.initial = rate_param; h.finitialize(); the loop over u.nodes
Rx_Initialize ==
    /\ program = "RxD" /\ pc = "init"
    /\ neuron' = Rx_setInitial(
                   finitialize([neuron EXCEPT !.r_initial = values.rate_param]),
                   values.fraction_initial)
    /\ calls' = Append(calls, "finitialize")
    /\ pc' = "plot0"
    /\ UNCHANGED <<values, pending, displayed, figure, iter, cell>>
    /\ WFrame

\* f, ax = plt.subplots(1,1); ax.plot(..., u.nodes.concentration, 'r')
Rx_PlotInitial ==
    /\ program = "RxD" /\ pc = "plot0"
    /\ figure' = Append(figure, Rx_line(neuron))
    /\ calls' = Append(calls, "plot")
    /\ iter' = 1
    /\ pc' = "loop"
    /\ UNCHANGED <<values, pending, displayed, neuron, cell>>
    /\ WFrame

\* a loop body that draws the line before it runs the simulation on
Rx_LoopBody_plotFirst ==
    /\ program = "RxD" /\ pc = "loop"
    /\ iter < 5
    /\ figure' = Append(figure, Rx_line(neuron))
    /\ \E u \in Rx_Concs :
         neuron' = Rx_evaluate(continuerun(neuron, iter * 25), u)
    /\ calls' = calls \o <<"plot", "continuerun">>
    /\ iter' = iter + 1
    /\ UNCHANGED <<pc, values, pending, displayed, cell>>
    /\ WFrame

\* for i in range(1, 5): h.continuerun(i * 25); ax.plot(...)
Rx_LoopBody ==
    /\ program = "RxD" /\ pc = "loop"
    /\ iter < 5
    /\ \E u \in Rx_Concs :
         neuron' = Rx_evaluate(continuerun(neuron, iter * 25), u)
    /\ figure' = Append(figure, Rx_line(neuron'))
    /\ calls' = calls \o <<"continuerun", "plot">>
    /\ iter' = iter + 1
    /\ UNCHANGED <<pc, values, pending, displayed, cell>>
    /\ WFrame

\* the labels, the legend, the title and plt.show()
Rx_Show ==
    /\ program = "RxD" /\ pc = "loop"
    /\ iter = 5
    /\ displayed' = figure
    /\ calls' = Append(calls, "show")
    /\ pc' = "idle"
    /\ UNCHANGED <<values, pending, figure, neuron, iter, cell>>
    /\ WFrame

Rx_Next ==
    \/ Rx_SliderChange
    \/ Rx_Handle
    \/ Rx_Initialize
    \/ Rx_PlotInitial
    \/ Rx_LoopBody
    \/ Rx_Show

(***************************************************************************)
(* The LFPy exercise: simulate_n_plot_cell_with_synapse and its widget.    *)
(***************************************************************************)
\* the slider positions tried (syn_weight in units of 0.0001); the first of
\* each is the widget's initial value: synapse_xpos is made with value=600,
\* which the slider clips to its max of 200
L_Values ==
    [synapse_xpos |-> {200, 0}, synapse_zpos |-> {600, 1400},
     syn_weight |-> {10, 1000}, active_soma |-> {FALSE, TRUE},
     stimulation_time |-> {20, 80}]
L_Defaults ==
    [synapse_xpos |-> 200, synapse_zpos |-> 600, syn_weight |-> 10,
     active_soma |-> FALSE, stimulation_time |-> 20]

\* cell_parameters = {...}, as first written
L_passive_parameters ==
    [morphology |-> "./cells/j4a.hoc", cm |-> "1.0", Ra |-> "150.",
     v_init |-> "-65.", passive |-> TRUE,
     passive_parameters |-> [g_pas |-> "1./30000", e_pas |-> "-65"],
     dt |-> "2.**-3", tstart |-> "0.", tstop |-> "100."]

\* cell_parameters with the custom_fun entries whatever active_soma is
L_cell_parameters_alwaysActive(active_soma) ==
    L_passive_parameters @@
      [custom_fun |-> <<"custom_fun">>, custom_fun_args |-> <<"{}">>]

\* cell_parameters, with the custom_fun entries added when active_soma
L_cell_parameters(active_soma) ==
    IF active_soma
    THEN L_passive_parameters @@
           [custom_fun |-> <<"custom_fun">>, custom_fun_args |-> <<"{}">>]
    ELSE L_passive_parameters

\* def custom_fun(): h.soma.insert('hh')
custom_fun(soma) == soma \cup {"hh"}

\* the mechanisms LFPy.Cell leaves in the soma: pas, since passive is True,
\* and what each function of custom_fun inserts, called once with its
\* argument dictionary
L_soma(cp) ==
    LET passive == IF cp.passive THEN {"pas"} ELSE {}
    IN  IF "custom_fun" \in DOMAIN cp /\ Len(cp.custom_fun) = 1
                                       /\ cp.custom_fun[1] = "custom_fun"
        THEN custom_fun(passive)
        ELSE passive

\* synapse_parameters and the spike time
L_synapse(v) ==
    [idx |-> <<v.synapse_xpos, "0.", v.synapse_zpos>>, e |-> "0.",
     syntype |-> "ExpSyn", tau |-> "5.", weight |-> v.syn_weight,
     record_current |-> TRUE, spike_times |-> <<v.stimulation_time>>]

\* the cell and the synapse the callback builds from its arguments
L_build(v) ==
    [cell_parameters |-> L_cell_parameters(v.active_soma),
     soma |-> L_soma(L_cell_parameters(v.active_soma)),
     rotation |-> <<"4.99", "-4.33", "3.14">>,
     synapse |-> L_synapse(v),
     simulated |-> FALSE]

\* cell.simulate(rec_imem=True, rec_vmem=True)
L_simulate(c) == [c EXCEPT !.simulated = TRUE]

\* the three lines of the figure: the synapse's segment, the requested
\* position, and the soma potential of this cell
L_lines(c, v) ==
    << [what |-> "synidx", of |-> c],
       [what |-> "xz", of |-> <<v.synapse_xpos, v.synapse_zpos>>],
       [what |-> "vmem", of |-> c] >>

L_Init ==
    /\ program = "LFPy"
    /\ pc = "build"
    /\ calls = <<>>
    /\ OdeIdle
    /\ LogIdle
    /\ values = L_Defaults
    /\ pending = <<>>
    /\ displayed = <<>>
    /\ figure = <<>>
    /\ neuron = NoValue
    /\ iter = 0
    /\ cell = NoValue
    /\ E5Idle

L_SliderChange ==
    /\ program = "LFPy"
    /\ \E name \in DOMAIN L_Values : \E v \in L_Values[name] : SliderChange(name, v)
    /\ UNCHANGED <<pc, calls, values, displayed, figure, neuron, iter, cell>>
    /\ WFrame

L_Handle ==
    /\ program = "LFPy" /\ pc = "idle"
    /\ Len(pending) > 0
    /\ values' = HandleChange
    /\ pending' = Tail(pending)
    /\ IF values' # values
       THEN pc' = "build" /\ calls' = <<>> /\ figure' = <<>>
       ELSE UNCHANGED <<pc, calls, figure>>
    /\ UNCHANGED <<displayed, neuron, iter, cell>>
    /\ WFrame

\* LFPy.Cell(**cell_parameters); set_rotation; LFPy.Synapse; set_spike_times
L_Build ==
    /\ program = "LFPy" /\ pc = "build"
    /\ cell' = L_build(values)
    /\ pc' = "simulate"
    /\ UNCHANGED <<calls, values, pending, displayed, figure, neuron, iter>>
    /\ WFrame

L_Simulate ==
    /\ program = "LFPy" /\ pc = "simulate"
    /\ cell' = L_simulate(cell)
    /\ calls' = Append(calls, "simulate")
    /\ pc' = "plot"
    /\ UNCHANGED <<values, pending, displayed, figure, neuron, iter>>
    /\ WFrame

\* ax1.plot twice, ax2.plot
L_Plot ==
    /\ program = "LFPy" /\ pc = "plot"
    /\ figure' = L_lines(cell, values)
    /\ calls' = calls \o <<"plot", "plot", "plot">>
    /\ pc' = "show"
    /\ UNCHANGED <<values, pending, displayed, neuron, iter, cell>>
    /\ WFrame

L_Show ==
    /\ program = "LFPy" /\ pc = "show"
    /\ displayed' = figure
    /\ calls' = Append(calls, "show")
    /\ pc' = "idle"
    /\ UNCHANGED <<values, pending, figure, neuron, iter, cell>>
    /\ WFrame

L_Next ==
    \/ L_SliderChange
    \/ L_Handle
    \/ L_Build
    \/ L_Simulate
    \/ L_Plot
    \/ L_Show

(***************************************************************************)
(* The reaction widget of E2: ReactionWidget().display().  The class is    *)
(* in L2_widgets.py; what is modelled here is what the notebook says of    *)
(* it and the sliders its saved output lists: k, H2_0 and O2_0, each from  *)
(* 0 to 5, starting at 1, 3 and 3.                                         *)
(***************************************************************************)
\* the slider positions tried, in tenths
Rw_Values == [k |-> {10, 50}, H2_0 |-> {30, 0}, O2_0 |-> {30, 50}]
Rw_Defaults == [k |-> 10, H2_0 |-> 30, O2_0 |-> 30]

\* the solution drawn: that of the system for this rate and these initial
\* concentrations
Rw_lines(v) == << [k |-> v.k, y_0 |-> <<v.H2_0, v.O2_0, 0>>] >>

Rw_Init ==
    /\ program = "Reaction"
    /\ pc = "solve"
    /\ calls = <<>>
    /\ OdeIdle
    /\ LogIdle
    /\ values = Rw_Defaults
    /\ pending = <<>>
    /\ displayed = <<>>
    /\ figure = <<>>
    /\ neuron = NoValue
    /\ iter = 0
    /\ cell = NoValue
    /\ E5Idle

Rw_SliderChange ==
    /\ program = "Reaction"
    /\ \E name \in DOMAIN Rw_Values : \E v \in Rw_Values[name] : SliderChange(name, v)
    /\ UNCHANGED <<pc, calls, values, displayed, figure, neuron, iter, cell>>
    /\ WFrame

Rw_Handle ==
    /\ program = "Reaction" /\ pc = "idle"
    /\ Len(pending) > 0
    /\ values' = HandleChange
    /\ pending' = Tail(pending)
    /\ IF values' # values
       THEN pc' = "solve" /\ calls' = <<>> /\ figure' = <<>>
       ELSE UNCHANGED <<pc, calls, figure>>
    /\ UNCHANGED <<displayed, neuron, iter, cell>>
    /\ WFrame

\* the system is solved again and plotted again with the new values
Rw_SolveAndPlot ==
    /\ program = "Reaction" /\ pc = "solve"
    /\ figure' = Rw_lines(values)
    /\ displayed' = figure'
    /\ calls' = calls \o <<"odeint", "plot", "show">>
    /\ pc' = "idle"
    /\ UNCHANGED <<values, pending, neuron, iter, cell>>
    /\ WFrame

Rw_Next ==
    \/ Rw_SliderChange
    \/ Rw_Handle
    \/ Rw_SolveAndPlot

(***************************************************************************)
(* Notebook E5.1: the data array and the peak-finding loop.                *)
(***************************************************************************)
sweep_num == 15
SR == 5
sweep_length == 5000
sweep_duration == sweep_length \div SR

\* time = np.linspace(0.2, sweep_duration, sweep_length): entry j is
\* 0.2 + j * (sweep_duration - 0.2)/(sweep_length - 1)
E5_time(j) ==
    RAdd(Q(1, 5),
         RMul(R(j), RDiv(RSub(R(sweep_duration), Q(1, 5)), R(sweep_length - 1))))

\* start = int(5000*(266.6/1000)); finish = int(1500)
E5_start == (5000 * 2666) \div 10000
E5_finish == 1500

\* The recordings tried for I: the current is 0 except at two samples, in
\* or next to the search window, whose values change from sweep to sweep.
E5_Positions == {E5_start - 1, E5_start, 1400, E5_finish - 1, E5_finish}
E5_Currents == {-3, -1, 2}
E5_Data ==
    { d \in [p1 : E5_Positions, v1 : E5_Currents, p2 : E5_Positions, v2 : E5_Currents] :
        d.p1 # d.p2 }

\* I[j, i]
E5_I(d, j, i) ==
    IF j = d.p1 THEN d.v1 - i
    ELSE IF j = d.p2 THEN d.v2 + i
    ELSE 0

\* search = I[start:finish, i]
E5_search(d, i) == [n \in 0..(E5_finish - E5_start - 1) |-> E5_I(d, E5_start + n, i)]

\* search.min()
np_min(a) == CHOOSE v \in {a[n] : n \in DOMAIN a} : \A n \in DOMAIN a : v <= a[n]

\* an argmin that gives the last of several equal minima
np_argmin_last(a) ==
    LET lowest == np_min(a)
    IN  CHOOSE n \in DOMAIN a :
            /\ a[n] = lowest
            /\ \A m \in DOMAIN a : a[m] = lowest => m <= n

\* search.argmin(): the first index of the minimum
np_argmin(a) ==
    LET lowest == np_min(a)
    IN  CHOOSE n \in DOMAIN a :
            /\ a[n] = lowest
            /\ \A m \in DOMAIN a : a[m] = lowest => n <= m

\* np.zeros(15)
E5_zeros == [n \in 0..14 |-> 0]

E5_Init ==
    /\ program = "E5"
    /\ pc = "loop"
    /\ calls = <<>>
    /\ OdeIdle
    /\ LogIdle
    /\ WidgetIdle
    /\ I \in E5_Data
    /\ sweep = 0
    /\ peak = E5_zeros
    /\ peak_index = E5_zeros
    /\ t_peak = [n \in 0..14 |-> R(0)]

\* one pass of: for i in range(sweep_num)
E5_LoopBody ==
    /\ program = "E5" /\ pc = "loop"
    /\ sweep < sweep_num
    /\ LET i == sweep
           search == E5_search(I, i)
       IN  /\ peak' = [peak EXCEPT ![i] = np_min(search)]
           /\ peak_index' = [peak_index EXCEPT ![i] = np_argmin(search) + E5_start]
           /\ t_peak' = [t_peak EXCEPT ![i] = E5_time(peak_index'[i])]
    /\ calls' = Append(calls, "plot")
    /\ sweep' = sweep + 1
    /\ UNCHANGED <<program, pc, I>>
    /\ UNCHANGED notE5

\* plt.show() after the loop
E5_Show ==
    /\ program = "E5" /\ pc = "loop"
    /\ sweep = sweep_num
    /\ calls' = Append(calls, "show")
    /\ pc' = "done"
    /\ UNCHANGED <<program, I, sweep, peak, peak_index, t_peak>>
    /\ UNCHANGED notE5

E5_Next ==
    \/ E5_LoopBody
    \/ E5_Show

Init == E2_Init \/ E6_Init \/ Log_Init \/ Rx_Init \/ L_Init \/ Rw_Init \/ E5_Init

Next == E2_Next \/ E6_Next \/ Log_Next \/ Rx_Next \/ L_Next \/ Rw_Next \/ E5_Next

Spec == Init /\ [][Next]_vars

(***************************************************************************)
(* The claims.                                                             *)
(***************************************************************************)
HasEval == Len(evals) > 0
AfterSolve == pc \in {"plot", "show", "done"}

\* C1: every evaluation of the E6 rhs returns the voltage derivative of the
\* documented membrane equation, Cm*dV/dt = -(I_Na + I_K + I_L + I_app),
\* leak current included.
C1_MembraneEquation ==
    program = "E6" =>
      \A i \in 1..Len(evals) :
        LET e == evals[i]
        IN  RMul(p.Cm, e.dydt[4]) =
              RNeg(RAdd(RAdd(RAdd(E6_I_Na(e.y, p), E6_I_K(e.y, p)), E6_I_L(e.y, p)),
                        E6_I_app(e.t, p)))

\* C2: every evaluation of the E2 rhs gives dH2O/dt = k*H2^2*O2,
\* dO2/dt = -dH2O/dt and dH2/dt = -2*dH2O/dt.
C2_MassAction ==
    program = "E2" =>
      \A i \in 1..Len(evals) :
        LET e == evals[i]
            dH2O == RMul(k, RMul(RPow(e.y[1], 2), e.y[2]))
        IN  /\ e.dydt[3] = dH2O
            /\ e.dydt[2] = RNeg(dH2O)
            /\ e.dydt[1] = RMul(R(-2), dH2O)

\* C2's case: an evaluation at a state where the reaction runs
C2_Witness ==
    /\ program = "E2"
    /\ \E i \in 1..Len(evals) : evals[i].dydt[3] # R(0) /\ evals[i].y[1] # evals[i].y[2]

\* C6: the E2 time vector starts at 0, has consecutive points dt apart and
\* ends at the end time T.
C6_TimeVector ==
    (program = "E2" /\ pc # "setup") =>
      /\ Len(time) > 0
      /\ time[1] = 0
      /\ \A i \in 1..(Len(time) - 1) : time[i + 1] - time[i] = E2_dt
      /\ Last(time) = E2_T

\* C7: along every trajectory the solver steps out of rhs, H2 - 2*O2,
\* H2 + 2*H2O and O2 + H2O keep their initial values; from equal initial
\* H2 and O2, O2 is at least half its initial value wherever H2 >= 0.
C7_Conserved ==
    program = "E2" =>
      \A i \in 1..Len(solutions) :
        LET y == solutions[i]
            two == R(2)
        IN  /\ RSub(y[1], RMul(two, y[2])) = RSub(y_0[1], RMul(two, y_0[2]))
            /\ RAdd(y[1], RMul(two, y[3])) = RAdd(y_0[1], RMul(two, y_0[3]))
            /\ RAdd(y[2], y[3]) = RAdd(y_0[2], y_0[3])
            /\ (y_0[1] = y_0[2] /\ RLe(R(0), y[1])) => RLe(y_0[2], RMul(two, y[2]))

\* C7's case: equal initial concentrations, and a later point of the
\* trajectory where H2 has been consumed but is not negative
C7_Witness ==
    /\ program = "E2"
    /\ y_0[1] = y_0[2]
    /\ \E i \in 2..Len(solutions) :
         /\ RLt(solutions[i][1], y_0[1])
         /\ RLt(R(0), solutions[i][1])
         /\ RLt(solutions[i][2], y_0[2])

GateLaw(alpha, beta, x) == RSub(RMul(alpha, RSub(R(1), x)), RMul(beta, x))

\* C8: rhs returns one derivative per state variable in the order of y, the
\* order of the initial condition and of the column split: each named
\* column starts at the variable's initial value and advances, step by
\* step, by the derivative of that variable.
C8_Order ==
    /\ (program = "E2" /\ AfterSolve) =>
         /\ \A i \in 1..Len(evals) : Len(evals[i].dydt) = 3 /\ Len(evals[i].y) = 3
         /\ Len(solutions) = Len(evals) + 1
         /\ cols.H2[1] = y_0[1] /\ cols.O2[1] = y_0[2] /\ cols.H2O[1] = y_0[3]
         /\ \A i \in 1..Len(evals) :
              LET h == evals[i].h
                  r == RMul(k, RMul(RPow(cols.H2[i], 2), cols.O2[i]))
              IN  /\ cols.H2O[i + 1] = RAdd(cols.H2O[i], RMul(h, r))
                  /\ cols.O2[i + 1] = RSub(cols.O2[i], RMul(h, r))
                  /\ cols.H2[i + 1] = RSub(cols.H2[i], RMul(h, RMul(R(2), r)))
    /\ (program = "E6" /\ AfterSolve) =>
         /\ \A i \in 1..Len(evals) : Len(evals[i].dydt) = 4 /\ Len(evals[i].y) = 4
         /\ Len(solutions) = Len(evals) + 1
         /\ cols.m[1] = y_0[1] /\ cols.h[1] = y_0[2]
         /\ cols.n[1] = y_0[3] /\ cols.V[1] = y_0[4]
         /\ \A i \in 1..Len(evals) :
              LET h == evals[i].h
                  rt == evals[i].rt
                  yi == <<cols.m[i], cols.h[i], cols.n[i], cols.V[i]>>
                  dV == RDiv(RNeg(RAdd(RAdd(E6_I_Na(yi, p), E6_I_app(evals[i].t, p)),
                                       E6_I_K(yi, p))), p.Cm)
              IN  /\ cols.m[i + 1] =
                       RAdd(cols.m[i], RMul(h, GateLaw(rt.alpha_m, rt.beta_m, cols.m[i])))
                  /\ cols.h[i + 1] =
                       RAdd(cols.h[i], RMul(h, GateLaw(rt.alpha_h, rt.beta_h, cols.h[i])))
                  /\ cols.n[i + 1] =
                       RAdd(cols.n[i], RMul(h, GateLaw(rt.alpha_n, rt.beta_n, cols.n[i])))
                  /\ cols.V[i + 1] = RAdd(cols.V[i], RMul(h, dV))

\* C8's case: an E6 solution of several rows has been split into columns,
\* its gates moving at different rates
C8_Witness ==
    /\ program = "E6" /\ AfterSolve
    /\ Len(evals) >= 2
    /\ evals[1].dydt[1] # evals[1].dydt[2]

ErrorCalls == {"error", "type_error", "value_error"}

\* C3: pop_log_level reverts the log level to the one in force before the
\* matching push_log_level: after every pop of a properly nested sequence
\* the Logger's level (get_log_level, and the level of the logging.Logger)
\* is the level that was in force immediately before the matching push.
C3_PopReverts ==
    (program = "Logger" /\ last.op = "pop_log_level" /\ nested) =>
      /\ last.raised = "none"
      /\ get_log_level(logger) = last.matched
      /\ logger.log_level = last.matched

\* C3's case: the pop of an inner push of two nested pushes, the level
\* restored being one set by the outer push
C3_Witness ==
    /\ program = "Logger" /\ last.op = "pop_log_level" /\ nested
    /\ Len(before) = 1
    /\ last.matched # before[1]
    /\ get_log_level(logger) = last.matched

\* C9: with no set_log_indent or add_log_indent call, the indentation level
\* is 0 plus the number of begin_log calls minus the number of end_log calls.
C9_Indent ==
    (program = "Logger" /\ ~indentSet) =>
      logger._indent_level = nBegin - nEnd

\* C9's case: tasks begun and ended, one still open
C9_Witness ==
    /\ program = "Logger" /\ ~indentSet
    /\ nBegin = 2 /\ nEnd = 1

Rx_Expected(v) ==
    LET n0 == Rx_setInitial(finitialize([Rx_Fresh EXCEPT !.r_initial = v.rate_param]),
                            v.fraction_initial)
        n1 == continuerun(n0, 25)
        n2 == continuerun(n1, 50)
        n3 == continuerun(n2, 75)
        n4 == continuerun(n3, 100)
    IN  <<Rx_line(n0), Rx_line(n1), Rx_line(n2), Rx_line(n3), Rx_line(n4)>>

\* the figure simulate_n_plot_cell_with_synapse draws for these values
L_Expected(v) == L_lines(L_simulate(L_build(v)), v)

Expected(v) ==
    CASE program = "RxD" -> Rx_Expected(v)
      [] program = "LFPy" -> L_Expected(v)
      [] program = "Reaction" -> Rw_lines(v)

Widgets == {"RxD", "LFPy", "Reaction"}
Settled == program \in Widgets /\ pc = "idle" /\ pending = <<>>

\* C4: once every slider change sent has been handled and the callback has
\* returned, the figure displayed is the one the callback computes from the
\* current values of all the sliders, whatever was changed and drawn before.
C4_DisplayedIsCurrent ==
    Settled => displayed = Expected(values)

\* a settled widget whose sliders have been moved away from both initial values
C4_Witness ==
    /\ Settled
    /\ program = "RxD"
    /\ values.rate_param # Rx_Defaults.rate_param
    /\ values.fraction_initial # Rx_Defaults.fraction_initial
    /\ Len(displayed) = 5

IntegratorCalls == {"odeint", "continuerun", "simulate"}
PlotThenIntegrate(cs) ==
    \E i, j \in 1..Len(cs) : i < j /\ cs[i] = "plot" /\ cs[j] \in IntegratorCalls
IsPrefix(a, b) == Len(a) <= Len(b) /\ a = SubSeq(b, 1, Len(a))

\* C5: within one execution of a solve-and-plot routine no plot call comes
\* before an integrator call: every plot call follows the last integrator
\* call of that execution.
C5_IntegrateThenPlot ==
    ~ PlotThenIntegrate(calls)

\* the calls of one execution of runneuron, in order
Rx_CallOrder ==
    <<"finitialize", "plot", "continuerun", "plot", "continuerun", "plot",
      "continuerun", "plot", "continuerun", "plot", "show">>

\* C5 as amended: the E2 cells, the E6 run cell and
\* simulate_n_plot_cell_with_synapse plot only after their last integrator
\* call; runneuron draws the initial profile before its first continuerun
\* and one profile after each of its four continuerun calls; every routine
\* that calls plt.show() calls it after its last integrator call and its
\* last plot call.
C5_PlotOrder ==
    /\ program \in {"E2", "E6", "LFPy", "Reaction"} => ~ PlotThenIntegrate(calls)
    /\ program = "RxD" => IsPrefix(calls, Rx_CallOrder)
    /\ \A i \in 1..Len(calls) : calls[i] = "show" => i = Len(calls)

\* runneuron has returned from an execution a slider change started
C5_Witness ==
    /\ program = "RxD" /\ pc = "idle"
    /\ calls = Rx_CallOrder
    /\ values # Rx_Defaults

(***************************************************************************)
(* The RxD exercise.                                                       *)
(***************************************************************************)
Evaluated == program = "RxD" /\ neuron.flux # <<>>
Between(u) == RLt(Q(3, 10), u) /\ RLt(u, R(1))

Window == E5_start..(E5_finish - 1)

\* C12: for every sweep i the loop has processed, peak[i] is the minimum of
\* I[start:finish, i], peak_index[i] is the absolute index of the first
\* sample of the window with that value, and t_peak[i] is the time of that
\* sample.
C12_PeakFinding ==
    program = "E5" =>
      \A i \in 0..(sweep - 1) :
        /\ \A j \in Window : peak[i] <= E5_I(I, j, i)
        /\ peak_index[i] \in Window
        /\ E5_I(I, peak_index[i], i) = peak[i]
        /\ \A j \in Window : j < peak_index[i] => E5_I(I, j, i) > peak[i]
        /\ t_peak[i] = Q(peak_index[i] + 1, 5)

\* every sweep is processed; in one of them the minimum is taken twice, at
\* the first and at the last sample of the window
C12_Witness ==
    /\ program = "E5" /\ pc = "done" /\ sweep = sweep_num
    /\ \E i \in 0..(sweep_num - 1) :
         /\ peak_index[i] = E5_start
         /\ E5_I(I, E5_finish - 1, i) = peak[i]
         /\ peak[i] < 0

Initialised == program = "RxD" /\ pc = "plot0"
Ones == {i \in Nodes : neuron.conc[i] = 1}

Built == program = "LFPy" /\ pc \in {"simulate", "plot", "show", "idle"}
CustomKeys == {"custom_fun", "custom_fun_args"}

\* C17: the cell simulate_n_plot_cell_with_synapse builds has hh in its soma
\* if and only if active_soma is true: with active_soma false
\* cell_parameters has no custom_fun entry and the soma is passive only;
\* with active_soma true custom_fun is passed once, with one empty argument
\* dictionary.  The other cell parameters and the synapse are the same in
\* both cases.
C17_ActiveSoma ==
    Built =>
      LET cp == cell.cell_parameters
          others == [x \in (DOMAIN cp) \ CustomKeys |-> cp[x]]
      IN  /\ ("hh" \in cell.soma) <=> values.active_soma
          /\ ~ values.active_soma =>
               /\ (DOMAIN cp) \cap CustomKeys = {}
               /\ cell.soma = {"pas"}
          /\ values.active_soma =>
               /\ CustomKeys \subseteq DOMAIN cp
               /\ cp.custom_fun = <<"custom_fun">>
               /\ cp.custom_fun_args = <<"{}">>
               /\ cell.soma = {"pas", "hh"}
          /\ DOMAIN others = {"morphology", "cm", "Ra", "v_init", "passive",
                              "passive_parameters", "dt", "tstart", "tstop"}
          /\ \A x \in DOMAIN others : others[x] = L_cell_parameters(FALSE)[x]
          /\ cell.synapse = L_synapse([values EXCEPT !.active_soma = ~ @])

\* the checkbox was ticked and the callback has drawn the active cell, after
\* the passive one
C17_Witness ==
    /\ Built /\ pc = "idle"
    /\ values.active_soma
    /\ "hh" \in cell.soma
    /\ displayed # <<>>
    /\ displayed[1].of.soma = {"pas", "hh"}

(***************************************************************************)
(* The Logger's handlers and log files.                                    *)
(***************************************************************************)
Attached(self, h) == Cardinality({i \in 1..Len(self.handlers) : self.handlers[i] = h})

C16_OneHandlerPerLogfile ==
    program = "Logger" =>
      /\ \A e \in logger._logfiles : Attached(logger, e.handler) = 1
      /\ last.op = "add_logfile" =>
           /\ last.raised = "none"
           /\ last.kwargs.filename \in Registered(logger)
           /\ Attached(logger, get_logfile_handler(logger, last.kwargs.filename)) = 1
      /\ last.op = "remove_logfile" =>
           /\ last.kwargs.filename \notin Registered(logger)
           /\ Attached(logger, FileHandler(last.kwargs.filename, "a")) = 0

=============================================================================
